---- MODULE Spec2Model ----
(***************************************************************************)
(* Model of scripts/merge.py: the rule aggregation pipeline.               *)
(*                                                                         *)
(* Text is modelled as a sequence of one-character strings, so that the    *)
(* string operations of the code (strip, startswith, split, splitlines,    *)
(* sorted) are computed rather than assumed.                               *)
(***************************************************************************)
EXTENDS Integers, Sequences, FiniteSets, TLC

(***************************************************************************)
(* Python values                                                           *)
(***************************************************************************)

\* Python's None, as a value no text is equal to.
None == <<"None">>

\* truth value of an Optional[str]: None and "" are both false
Truthy(v) == v # None /\ v # <<>>

\* the characters str.strip() removes
IsSpace(c) == c \in {" ", "\t", "\n", "\r"}

RECURSIVE lstrip(_)
lstrip(s) == IF s # <<>> /\ IsSpace(Head(s)) THEN lstrip(Tail(s)) ELSE s

RECURSIVE rstrip(_)
rstrip(s) ==
    IF s # <<>> /\ IsSpace(s[Len(s)]) THEN rstrip(SubSeq(s, 1, Len(s) - 1)) ELSE s

strip(s) == rstrip(lstrip(s))

startswith(s, p) == Len(s) >= Len(p) /\ SubSeq(s, 1, Len(p)) = p

\* position of the first occurrence of character c in s, 0 when there is none
find(s, c) ==
    IF \E i \in 1..Len(s) : s[i] = c
    THEN CHOOSE i \in 1..Len(s) : s[i] = c /\ \A j \in 1..(i - 1) : s[j] # c
    ELSE 0

\* s.split(c, 1): one part when c does not occur, else the text before the
\* first c and the text after it
split1(s, c) ==
    LET i == find(s, c)
    IN  IF i = 0 THEN <<s>>
        ELSE <<SubSeq(s, 1, i - 1), SubSeq(s, i + 1, Len(s))>>

\* position of the first line boundary in s, 0 when there is none
FirstBreak(s) ==
    IF \E i \in 1..Len(s) : s[i] \in {"\n", "\r"}
    THEN CHOOSE i \in 1..Len(s) :
             s[i] \in {"\n", "\r"} /\ \A j \in 1..(i - 1) : s[j] \notin {"\n", "\r"}
    ELSE 0

\* str.splitlines(): lines without their boundaries; "\r\n" is one boundary
\* and a final boundary opens no further line
RECURSIVE splitlines(_)
splitlines(s) ==
    IF s = <<>> THEN <<>>
    ELSE LET i == FirstBreak(s)
         IN  IF i = 0 THEN <<s>>
             ELSE LET crlf == s[i] = "\r" /\ i < Len(s) /\ s[i + 1] = "\n"
                      rest == SubSeq(s, (IF crlf THEN i + 2 ELSE i + 1), Len(s))
                  IN  <<SubSeq(s, 1, i - 1)>> \o splitlines(rest)

Upper == <<"A", "B", "C", "D", "E", "F", "G", "H", "I", "J", "K", "L", "M",
           "N", "O", "P", "Q", "R", "S", "T", "U", "V", "W", "X", "Y", "Z">>

Lower == <<"a", "b", "c", "d", "e", "f", "g", "h", "i", "j", "k", "l", "m",
           "n", "o", "p", "q", "r", "s", "t", "u", "v", "w", "x", "y", "z">>

IndexIn(alphabet, c) == CHOOSE i \in 1..Len(alphabet) : alphabet[i] = c

IsIn(alphabet, c) == \E i \in 1..Len(alphabet) : alphabet[i] = c

\* str.lower() on one character
LowerOf(c) == IF IsIn(Upper, c) THEN Lower[IndexIn(Upper, c)] ELSE c

lower(s) == [i \in 1..Len(s) |-> LowerOf(s[i])]

\* the code point of a character, the key of Python's string comparison
ord(c) ==
    IF IsIn(Upper, c) THEN 64 + IndexIn(Upper, c)
    ELSE IF IsIn(Lower, c) THEN 96 + IndexIn(Lower, c)
    ELSE CASE c = "\t" -> 9 [] c = "\n" -> 10 [] c = "\r" -> 13 [] c = " " -> 32
           [] c = "!" -> 33 [] c = "#" -> 35 [] c = "," -> 44 [] c = "-" -> 45
           [] c = "." -> 46 [] c = ":" -> 58 [] c = "@" -> 64

\* s < t for two texts: the first differing character decides, a proper
\* prefix comes first
RECURSIVE StrLess(_, _)
StrLess(s, t) ==
    IF t = <<>> THEN FALSE
    ELSE IF s = <<>> THEN TRUE
    ELSE IF Head(s) # Head(t) THEN ord(Head(s)) < ord(Head(t))
    ELSE StrLess(Tail(s), Tail(t))

\* one element put at its place in an ascending list
RECURSIVE Insert(_, _)
Insert(x, l) ==
    IF l = <<>> THEN <<x>>
    ELSE IF StrLess(Head(l), x) THEN <<Head(l)>> \o Insert(x, Tail(l))
    ELSE <<x>> \o l

\* sorted(l) for a list of texts; the sorted tail is worked out once
RECURSIVE sorted(_)
sorted(l) ==
    IF l = <<>> THEN <<>>
    ELSE CHOOSE r \in {Insert(Head(l), rest) : rest \in {sorted(Tail(l))}} : TRUE

\* set(l) for a list
set(l) == {l[i] : i \in 1..Len(l)}

RECURSIVE SetToSeq(_)
SetToSeq(S) ==
    IF S = {} THEN <<>>
    ELSE LET x == CHOOSE x \in S : TRUE IN <<x>> \o SetToSeq(S \ {x})

Reverse(l) == [i \in 1..Len(l) |-> l[Len(l) + 1 - i]]

Rotate(l, k) == SubSeq(l, k + 1, Len(l)) \o SubSeq(l, 1, k)

\* list(S) for a set: the elements in an iteration order the program does not
\* control; the orders tried are the rotations of one enumeration and their
\* reversals
list(S) ==
    LET base == SetToSeq(S)
    IN  {Rotate(base, k) : k \in 0..(Len(base) - 1)}
        \cup {Reverse(Rotate(base, k)) : k \in 0..(Len(base) - 1)}
        \cup {base}

(***************************************************************************)
(* Constants of the program                                                *)
(***************************************************************************)

full == <<"f", "u", "l", "l">>
domain == <<"d", "o", "m", "a", "i", "n">>
keyword == <<"k", "e", "y", "w", "o", "r", "d">>
include_ == <<"i", "n", "c", "l", "u", "d", "e", ":">>

DOMAIN_ == <<"D", "O", "M", "A", "I", "N">>
DOMAIN_SUFFIX == DOMAIN_ \o <<"-", "S", "U", "F", "F", "I", "X">>
DOMAIN_KEYWORD == DOMAIN_ \o <<"-", "K", "E", "Y", "W", "O", "R", "D">>

\* self.v2fly_rule_map
v2fly_rule_map_keys == {full, domain, keyword}

\* variant: full and domain are mapped to each other's rule type
v2fly_rule_map_mixed(k) ==
    CASE k = full -> DOMAIN_SUFFIX
      [] k = domain -> DOMAIN_
      [] k = keyword -> DOMAIN_KEYWORD
      [] OTHER -> None

v2fly_rule_map(k) ==
    CASE k = full -> DOMAIN_
      [] k = domain -> DOMAIN_SUFFIX
      [] k = keyword -> DOMAIN_KEYWORD
      [] OTHER -> None

(***************************************************************************)
(* Line-oriented normalizer                                                *)
(***************************************************************************)

\* RuleProcessor._parse_v2fly_line
parse_v2fly_line(raw) ==
    LET line == strip(raw)
    IN  IF line = <<>> \/ startswith(line, <<"#">>) THEN None
        ELSE LET parts == split1(line, ":")
             IN  IF Len(parts) = 2 /\ parts[1] \in v2fly_rule_map_keys
                 THEN v2fly_rule_map(lower(parts[1])) \o <<",">> \o strip(parts[2])
                 ELSE DOMAIN_SUFFIX \o <<",">> \o line

\* variant: every include directive is scheduled, seen before or not
NotProcessedIgnored(include_name, processed) == TRUE

\* the test that guards the scheduling of an include
NotProcessed(include_name, processed) == include_name \notin processed

\* the classification of one line in the first pass of
\* RuleProcessor._recursive_parse_v2fly; acc holds the locals rules and
\* includes_to_fetch and the shared processed_includes

ParseStep(raw, acc) ==
    LET line == strip(raw)
    IN  IF line = <<>> \/ startswith(line, <<"#">>) THEN acc
        ELSE IF startswith(line, include_)
        THEN LET include_name == strip(split1(line, ":")[2])
             IN  IF NotProcessed(include_name, acc.processed)
                 THEN [acc EXCEPT !.processed = @ \cup {include_name},
                                  !.includes_to_fetch = @ \cup {include_name}]
                 ELSE acc
        ELSE LET parsed_rule == parse_v2fly_line(line)
             IN  IF Truthy(parsed_rule)
                 THEN [acc EXCEPT !.rules = @ \cup {parsed_rule}]
                 ELSE acc

RECURSIVE ParseLines(_, _)
ParseLines(lines, acc) ==
    IF lines = <<>> THEN acc ELSE ParseLines(Tail(lines), ParseStep(Head(lines), acc))

\* the first pass over a whole content
FirstPass(content, processed) ==
    ParseLines(splitlines(content),
               [rules |-> {}, includes_to_fetch |-> {}, processed |-> processed])

(***************************************************************************)
(* Upstream content of the line-oriented sources                           *)
(***************************************************************************)

A == <<"A">>
B == <<"B">>
C == <<"C">>
D == <<"D">>

\* the names a file of data/ can be asked for
Names == {A, B, C, D}

NL == <<"\n">>

\* A and B include each other
Cyclic ==
    [n \in Names |->
        CASE n = A -> include_ \o B \o NL \o full \o <<":", "a">> \o NL
          [] n = B -> <<"#", " ", "b">> \o NL \o include_ \o A \o NL
                      \o domain \o <<":", "b">>
          [] OTHER -> None]

\* A includes B and C, which both include D
Diamond ==
    [n \in Names |->
        CASE n = A -> include_ \o B \o NL \o include_ \o C \o NL \o <<"a">>
          [] n = B -> include_ \o D \o <<"\r", "\n">> \o keyword \o <<":", "b">>
                      \o NL \o full \o <<":", "d">>
          [] n = C -> <<" ", " ">> \o include_ \o <<" ", "D", " ">> \o NL \o NL
                      \o full \o <<":", " ", "c", " ">>
          [] n = D -> full \o <<":", "d">> \o NL \o <<"d">> \o NL]

\* a chain of depth three that ends in a file including itself
Chain ==
    [n \in Names |->
        CASE n = A -> full \o <<":", "a">> \o NL \o include_ \o B
          [] n = B -> <<"F", "u", "l", "l", ":", "b">> \o NL \o include_ \o C
          [] n = C -> include_ \o D \o NL \o <<"\t", "#", "c">> \o NL
                      \o keyword \o <<":", "c">>
          [] n = D -> include_ \o D \o NL \o domain \o <<":", "a">>]

\* A includes an empty file, a file that is not served, and itself
Sparse ==
    [n \in Names |->
        CASE n = A -> include_ \o B \o NL \o include_ \o C \o NL \o include_ \o A
                      \o NL \o <<"a", ":", "b">>
          [] n = B -> <<>>
          [] n = D -> include_ \o A \o NL \o <<"d">>
          [] OTHER -> None]

\* one file without includes: rule lines of every form with blanks around
\* them, an empty line and a comment
Spaced ==
    [n \in Names |->
        CASE n = A -> <<" ", " ">> \o full \o <<":", " ", "a", " ">> \o NL \o NL
                      \o <<"#", " ", "c">> \o NL
                      \o domain \o <<":", "b", "\t">> \o NL
                      \o keyword \o <<":", "c">> \o NL
                      \o <<" ", "d", ".", "e", " ">> \o NL
          [] OTHER -> None]

Scenarios == {Cyclic, Diamond, Chain, Sparse, Spaced}

\* an attempt that gets no response: connection error or timeout
NoResponse == 0

\* The responses to the successive attempts of one download, for a download
\* that ends with content (good) and for one that fails (bad).
Clear == [good |-> <<200>>, bad |-> <<404>>]

\* content at the fourth attempt; the server recovers only at the seventh
Flaky == [good |-> <<503, NoResponse, 429, 200>>,
          bad |-> <<503, 503, 503, 503, 503, 503, 200>>]

\* content at the last attempt the retries allow; a retried status followed
\* by one that is not retried
Stormy == [good |-> <<500, 502, 504, NoResponse, NoResponse, 200>>,
           bad |-> <<500, 403>>]

\* no response at all when the download fails
Offline == [good |-> <<200>>, bad |-> <<NoResponse>>]

Weathers == {Clear, Flaky, Stormy, Offline}

\* the contents that are served in some scenario
Contents == {sc[n] : sc \in Scenarios, n \in Names} \ {None}

\* the first pass, worked out once for the contents that are served and the
\* values processed_includes can have
first_passes ==
    {[content |-> c, processed |-> p, acc |-> FirstPass(c, p)] :
        c \in Contents, p \in SUBSET Names}

first_pass(content, processed) ==
    (CHOOSE e \in first_passes : e.content = content /\ e.processed = processed).acc

(***************************************************************************)
(* Upstream content of the structured-list sources                         *)
(***************************************************************************)

\* A source is given by what its retrieval and yaml.safe_load make of it:
\*   kind "fail"   the download or the local read failed (None)
\*        "empty"  the text is empty
\*        "error"  the text is not YAML (yaml.YAMLError)
\*        "nodict" the document is not a mapping
\*        "nokey"  a mapping without the key payload
\*        "list"   payload is a sequence, items gives its entries
\*        "null"   payload is a value that cannot be iterated
\*        "str"    payload is one string, items gives its characters
\* An entry is a string (isstr) with its text, or a value of another type.
Str(t) == [isstr |-> TRUE, text |-> t]

NonStr == [isstr |-> FALSE, text |-> <<>>]

Doc(k, entries) == [kind |-> k, items |-> entries]

RX == DOMAIN_ \o <<",", "x">>
RY == DOMAIN_ \o <<",", "y">>
RZ == DOMAIN_SUFFIX \o <<",", "z">>

DocXY == Doc("list", <<Str(<<" ">> \o RX), Str(<<"#", " ", "c">>), Str(RY \o <<" ">>)>>)
DocYZ == Doc("list", <<Str(RZ), NonStr, Str(RY)>>)
DocZ == Doc("list", <<Str(RZ)>>)
DocFail == Doc("fail", <<>>)
DocEmpty == Doc("empty", <<>>)
DocError == Doc("error", <<>>)
DocNoKey == Doc("nokey", <<>>)
DocNull == Doc("null", <<>>)

\* payload: ['', 'DOMAIN,x']
DocBlank == Doc("list", <<Str(<<>>), Str(RX)>>)

\* payload: ab
DocStr == Doc("str", <<Str(<<"a">>), Str(<<"b">>)>>)

(***************************************************************************)
(* Bounds and the category table                                           *)
(***************************************************************************)

\* number of times the pipeline is run in succession
MaxRuns == 2

\* worker threads of self.executor (20 in the program)
PoolSize == 2

\* worker threads of the pool of process_yaml_sources (10 in the program)
YamlPoolSize == 2

\* number of writes the file system fails in one behaviour
MaxFaults == 1

\* main(): the line-oriented categories with their top-level file
v2fly_sources == <<[category |-> "games", kind |-> "v2fly", top |-> A, sources |-> <<>>]>>

\* main(): the structured-list categories with their sources
categories ==
    <<[category |-> "CN", kind |-> "yaml", top |-> A, sources |-> <<1, 2, 3>>],
      [category |-> "VPS", kind |-> "yaml", top |-> A, sources |-> <<4>>]>>

\* the categories in the order the two loops of main() visit them
Table == v2fly_sources \o categories

CategoryNames == {Table[i].category : i \in 1..Len(Table)}

Sources == 1..4

DefaultDocs == [i \in Sources |-> IF i = 2 THEN DocYZ ELSE IF i = 3 THEN DocZ ELSE DocXY]

\* the structured-list sources as they are served in one behaviour: the
\* sources of CN vary with the one of VPS as usual, or the one of VPS varies
YamlWorlds ==
    {w \in [Sources -> {DocXY, DocYZ, DocZ, DocFail, DocEmpty, DocError,
                        DocNoKey, DocNull, DocBlank, DocStr}] :
        \/ /\ w[1] \in {DocXY, DocFail}
           /\ w[2] \in {DocYZ, DocError, DocNull}
           /\ w[3] \in {DocZ, DocFail, DocNoKey}
           /\ w[4] = DocXY
        \/ /\ \A i \in 1..3 : w[i] = DefaultDocs[i]
           /\ w[4] \in {DocEmpty, DocFail, DocBlank, DocStr}}

\* a snapshot file: absent, or a mapping whose payload is a sequence of rules
NoFile == [exists |-> FALSE, payload |-> <<>>]

FileOf(l) == [exists |-> TRUE, payload |-> l]

\* the snapshots an earlier run on other upstream content has left: written by
\* save_to_file, hence sorted
Stale ==
    [c \in CategoryNames |->
        CASE c = "games" -> FileOf(<<DOMAIN_ \o <<",", "a">>, DOMAIN_SUFFIX \o <<",", "b">>>>)
          [] c = "CN" -> FileOf(<<RX, RY>>)
          [] c = "VPS" -> FileOf(<<RX, RZ>>)]

NoReport == [status |-> "none", added |-> {}, removed |-> {}, total |-> 0]

(***************************************************************************)
(* State                                                                   *)
(***************************************************************************)

VARIABLES
    files,                \* upstream: content served for each name, None if not served
    down,                 \* upstream: names whose include download fails
    topdown,              \* upstream: the download of the top-level file fails
    weather,              \* upstream: the responses to the attempts of one download
    docs,                 \* upstream: what each structured-list source gives
    run,                  \* number of the current run of main()
    cat,                  \* index in Table of the category being processed
    visited,              \* the categories main() has begun in this run, in order
    pc,                   \* position of the main thread
    stack,                \* active calls of _recursive_parse_v2fly, innermost last
    processed_includes,   \* the set shared by one top-level resolution
    fut,                  \* state of the download future of each include name
    scheduled,            \* how often each include name was submitted for download
    gets,                 \* how often each name was downloaded, top-level included
    attempts,             \* requests sent by the latest download of each include
    touched,              \* threads that read or wrote processed_includes or rules
    all_rules,            \* the accumulator of process_yaml_sources
    yfut,                 \* state of the future of each structured-list source
    order,                \* the sources in the order as_completed yielded them
    rules,                \* the RuleSet handed to save_to_file
    snapshot,             \* the file of each category in rules/merged
    report,               \* what save_to_file logged for each category in this run
    prev,                 \* the reports of the run before
    last,                 \* the arguments and the prior file of the latest save_to_file
    writes,               \* number of times a snapshot was opened for writing in this run
    faults                \* number of writes the file system is still going to fail

env == <<files, down, topdown, weather, docs>>

drv == <<run, cat, visited>>

inc == <<stack, processed_includes, fut, scheduled, gets, attempts, touched>>

agg == <<all_rules, yfut, order>>

store == <<snapshot, report, prev, last, writes, faults>>

vars == <<env, drv, pc, inc, agg, rules, store>>

\* Write failures are explored for one upstream content in which every
\* download succeeds at once; the other contents, failing downloads and
\* retried requests are explored with a file system that fails no write.
Init ==
    /\ \/ /\ files \in Scenarios
          /\ topdown \in BOOLEAN
          /\ down \in SUBSET {n \in Names : files[n] # None}
          /\ topdown => down = {}
          /\ weather \in IF files = Cyclic THEN Weathers ELSE {Clear}
          /\ docs = DefaultDocs
       \/ /\ files = Diamond
          /\ topdown = FALSE
          /\ down = {}
          /\ weather = Clear
          /\ docs \in YamlWorlds
    /\ run = 1
    /\ cat = 1
    /\ visited = <<>>
    /\ pc = "start"
    /\ stack = <<>>
    /\ processed_includes = {}
    /\ fut = [n \in Names |-> "none"]
    /\ scheduled = [n \in Names |-> 0]
    /\ gets = [n \in Names |-> 0]
    /\ attempts = [n \in Names |-> 0]
    /\ touched = {}
    /\ all_rules = {}
    /\ yfut = [i \in Sources |-> "none"]
    /\ order = <<>>
    /\ rules = {}
    /\ snapshot \in {[c \in CategoryNames |-> NoFile], Stale}
    /\ report = [c \in CategoryNames |-> NoReport]
    /\ prev = [c \in CategoryNames |-> NoReport]
    /\ last = [category |-> "", rules |-> {}, prior |-> NoFile]
    /\ writes = 0
    /\ faults = IF files = Diamond /\ down = {} /\ ~topdown /\ docs = DefaultDocs
                THEN MaxFaults ELSE 0

(***************************************************************************)
(* Fetcher                                                                 *)
(***************************************************************************)

\* Retry(total=5, ...): the number of retries of one request
total == 5

\* variant: every error status is retried
status_forcelist_any == {403, 404, 429, 500, 502, 503, 504}

\* Retry(status_forcelist=[429, 500, 502, 503, 504])
status_forcelist == {429, 500, 502, 503, 504}

\* session.get(url, timeout=15) through the adapter with max_retries: the
\* request is sent again while it gets no response or a status of
\* status_forcelist and retries are left; raised when they are used up. served
\* gives the response to each attempt, its last entry for all further ones.
RECURSIVE send(_, _, _)
send(served, attempt, retries) ==
    LET status == served[IF attempt <= Len(served) THEN attempt ELSE Len(served)]
    IN  IF status = NoResponse \/ status \in status_forcelist
        THEN IF retries > 0
             THEN send(served, attempt + 1, retries - 1)
             ELSE [status |-> status, attempts |-> attempt, raised |-> TRUE]
        ELSE [status |-> status, attempts |-> attempt, raised |-> FALSE]

session_get(served) == send(served, 1, total)

\* response.raise_for_status() raises for a status from 400 to 599
raise_for_status(response) == response.status >= 400 /\ response.status < 600

\* the body of RuleProcessor.download_file for a URL that is answered by
\* served and holds content: the text, or None after a request error
fetch(served, content) ==
    LET response == session_get(served)
    IN  IF response.raised \/ raise_for_status(response) THEN None ELSE content

\* what the server answers to the attempts of the download of include name
Served(name) ==
    IF files[name] = None THEN <<404>>
    ELSE IF name \in down THEN weather.bad ELSE weather.good

\* the same for the download of the top-level file
ServedTop(name) ==
    IF files[name] = None THEN <<404>>
    ELSE IF topdown THEN weather.bad ELSE weather.good

\* RuleProcessor.download_file for V2FLY_BASE_URL + name: the text, or None
\* after a request error
download_file(name) == fetch(Served(name), files[name])

(***************************************************************************)
(* Include resolver                                                        *)
(***************************************************************************)

\* variant: the rules of a nested call are dropped
updateDropped(rs, nested_rules) == rs

\* rules.update(nested_rules)
update(rs, nested_rules) == rs \cup nested_rules

\* the thread that calls process_v2fly_category, and the threads of
\* self.executor
MainThread == "MainThread"

WorkerThread == "ThreadPoolExecutor"

\* variant: the nested call is made by the task that downloaded the include
nested_call_thread_pool == WorkerThread

\* the thread that makes the nested call for a downloaded include and updates
\* rules with its result: the one iterating as_completed, the submitted task
\* being download_file alone
nested_call_thread == MainThread

\* process_v2fly_category: the download of the top-level file, then the
\* outermost call with a fresh processed_includes
process_v2fly_category ==
    /\ pc = "start"
    /\ Table[cat].kind = "v2fly"
    /\ LET top == Table[cat].top
           initial_content == fetch(ServedTop(top), files[top])
       IN  /\ gets' = [n \in Names |-> IF n = top THEN 1 ELSE 0]
           /\ attempts' = [n \in Names |-> 0]
           /\ touched' = IF Truthy(initial_content) THEN {MainThread} ELSE {}
           /\ IF ~Truthy(initial_content)
              THEN /\ rules' = {}
                   /\ pc' = "save"
                   /\ stack' = <<>>
                   /\ processed_includes' = {}
                   /\ fut' = [n \in Names |-> "none"]
                   /\ scheduled' = [n \in Names |-> 0]
              ELSE /\ LET acc == first_pass(initial_content, {})
                      IN  /\ processed_includes' = acc.processed
                          /\ stack' = <<[rules |-> acc.rules,
                                         futures |-> acc.includes_to_fetch]>>
                          /\ fut' = [n \in Names |->
                                 IF n \in acc.includes_to_fetch THEN "queued" ELSE "none"]
                          /\ scheduled' = [n \in Names |->
                                 IF n \in acc.includes_to_fetch THEN 1 ELSE 0]
                   /\ pc' = "resolve"
                   /\ UNCHANGED rules
    /\ visited' = Append(visited, Table[cat].category)
    /\ UNCHANGED <<env, run, cat, agg, store>>

\* variant: the nested calls run on the worker threads and keep them while
\* they wait for their own downloads
busy_workers_nested == Cardinality({m \in Names : fut[m] = "running"}) + Len(stack)

\* the worker threads of self.executor that are taken: only download_file is
\* submitted, every call of _recursive_parse_v2fly runs on the main thread
busy_workers == Cardinality({m \in Names : fut[m] = "running"})

\* a worker thread of self.executor takes a submitted download
WorkerStart(n) ==
    /\ fut[n] = "queued"
    /\ busy_workers < PoolSize
    /\ fut' = [fut EXCEPT ![n] = "running"]
    /\ gets' = [gets EXCEPT ![n] = @ + 1]
    /\ UNCHANGED <<env, drv, pc, stack, processed_includes, scheduled, attempts, touched,
                   agg, rules,
                   store>>

\* the download returns and the future completes
WorkerFinish(n) ==
    /\ fut[n] = "running"
    /\ fut' = [fut EXCEPT ![n] = "done"]
    /\ attempts' = [attempts EXCEPT ![n] = session_get(Served(n)).attempts]
    /\ UNCHANGED <<env, drv, pc, stack, processed_includes, scheduled, gets, touched,
                   agg, rules, store>>

\* the calling frame after the future of n was yielded: the loop goes on with
\* the futures that remain
Yielded(frame, n) == [frame EXCEPT !.futures = @ \ {n}]

\* variant: a failed download ends the loop of the calling frame
FailedBreaks(frame, n) == [frame EXCEPT !.futures = {}]

\* the calling frame after the download of n turned out to have failed: a
\* warning is logged and the loop goes on
Failed(frame, n) == Yielded(frame, n)

\* one iteration of the as_completed loop of the innermost call: a fetched
\* include is parsed by a nested call, a failed one is only logged
AsCompleted(n) ==
    /\ pc = "resolve"
    /\ stack # <<>>
    /\ LET k == Len(stack)
           include_content == download_file(n)
           waiting == [stack EXCEPT ![k] = Yielded(@, n)]
       IN  /\ n \in stack[k].futures
           /\ fut[n] = "done"
           /\ IF Truthy(include_content)
              THEN LET acc == first_pass(include_content, processed_includes)
                   IN  /\ processed_includes' = acc.processed
                       /\ stack' = Append(waiting,
                                      [rules |-> acc.rules,
                                       futures |-> acc.includes_to_fetch])
                       /\ fut' = [m \in Names |->
                                     IF m \in acc.includes_to_fetch THEN "queued"
                                     ELSE IF m = n THEN "taken" ELSE fut[m]]
                       /\ scheduled' = [m \in Names |->
                                     IF m \in acc.includes_to_fetch
                                     THEN scheduled[m] + 1 ELSE scheduled[m]]
                       /\ touched' = touched \cup {nested_call_thread}
              ELSE /\ stack' = [stack EXCEPT ![k] = Failed(@, n)]
                   /\ fut' = [fut EXCEPT ![n] = "taken"]
                   /\ UNCHANGED <<processed_includes, scheduled, touched>>
    /\ UNCHANGED <<env, drv, pc, gets, attempts, agg, rules, store>>

\* variant: the call returns without waiting for its downloads
LoopDoneEarly(frame) == TRUE

\* the as_completed loop of the innermost call has yielded every future
LoopDone(frame) == frame.futures = {}

\* return rules: to the calling frame, or to process_v2fly_category and main
Return ==
    /\ pc = "resolve"
    /\ stack # <<>>
    /\ LET k == Len(stack)
       IN  /\ LoopDone(stack[k])
           /\ IF k = 1
              THEN /\ rules' = stack[k].rules
                   /\ stack' = <<>>
                   /\ pc' = "save"
                   /\ UNCHANGED touched
              ELSE /\ stack' = [SubSeq(stack, 1, k - 1) EXCEPT
                                   ![k - 1].rules = update(@, stack[k].rules)]
                   /\ touched' = touched \cup {nested_call_thread}
                   /\ UNCHANGED <<rules, pc>>
    /\ UNCHANGED <<env, drv, processed_includes, fut, scheduled, gets, attempts, agg, store>>

(***************************************************************************)
(* Structured-list normalizer and source aggregator                        *)
(***************************************************************************)

\* truth value of the content a source gave
HasContent(content) == content.kind \notin {"fail", "empty"}

\* RuleProcessor.process_yaml_content: the rules, or raised when an exception
\* other than yaml.YAMLError leaves the function
process_yaml_content(content) ==
    IF ~HasContent(content) THEN [raised |-> FALSE, rules |-> {}]
    ELSE IF content.kind \in {"error", "nodict", "nokey"}
    THEN [raised |-> FALSE, rules |-> {}]
    ELSE IF content.kind = "null" THEN [raised |-> TRUE, rules |-> {}]
    ELSE [raised |-> FALSE,
          rules |-> {strip(content.items[i].text) :
                        i \in {j \in 1..Len(content.items) :
                                  /\ content.items[j].isstr
                                  /\ ~startswith(content.items[j].text, <<"#">>)}}]

\* variant: the rules of a source replace the ones collected so far
CollectedLast(all, content) ==
    IF HasContent(content) THEN process_yaml_content(content).rules ELSE all

\* variant: a source that fails empties the aggregation
CollectedOrLost(all, content) ==
    IF HasContent(content) /\ ~process_yaml_content(content).raised
    THEN all \cup process_yaml_content(content).rules
    ELSE {}

\* all_rules after one iteration of the as_completed loop of
\* process_yaml_sources for a future that gave content
Collected(all, content) ==
    IF HasContent(content)
    THEN LET r == process_yaml_content(content)
         IN  IF r.raised THEN all ELSE all \cup r.rules
    ELSE all

\* the sources of the category being processed
CurrentSources == set(Table[cat].sources)

\* process_yaml_sources up to its wait in as_completed: one task submitted per
\* source
process_yaml_sources ==
    /\ pc = "start"
    /\ Table[cat].kind = "yaml"
    /\ all_rules' = {}
    /\ yfut' = [i \in Sources |-> IF i \in CurrentSources THEN "queued" ELSE "none"]
    /\ order' = <<>>
    /\ pc' = "collect"
    /\ visited' = Append(visited, Table[cat].category)
    /\ UNCHANGED <<env, run, cat, inc, rules, store>>

\* a worker thread of the pool takes the task submitted first
YamlWorkerStart(i) ==
    /\ yfut[i] = "queued"
    /\ \A j \in Sources : j < i => yfut[j] # "queued"
    /\ Cardinality({j \in Sources : yfut[j] = "running"}) < YamlPoolSize
    /\ yfut' = [yfut EXCEPT ![i] = "running"]
    /\ UNCHANGED <<env, drv, pc, inc, all_rules, order, rules, store>>

\* download_file or read_local_file returns and the future completes
YamlWorkerFinish(i) ==
    /\ yfut[i] = "running"
    /\ yfut' = [yfut EXCEPT ![i] = "done"]
    /\ UNCHANGED <<env, drv, pc, inc, all_rules, order, rules, store>>

\* one iteration of the as_completed loop of process_yaml_sources
YamlAsCompleted(i) ==
    /\ pc = "collect"
    /\ yfut[i] = "done"
    /\ all_rules' = Collected(all_rules, docs[i])
    /\ yfut' = [yfut EXCEPT ![i] = "taken"]
    /\ order' = Append(order, i)
    /\ UNCHANGED <<env, drv, pc, inc, rules, store>>

\* the as_completed loop of process_yaml_sources has yielded every future
YamlLoopDone == \A i \in CurrentSources : yfut[i] = "taken"

\* the pool is left and all_rules returned to main
YamlReturn ==
    /\ pc = "collect"
    /\ YamlLoopDone
    /\ rules' = all_rules
    /\ pc' = "save"
    /\ UNCHANGED <<env, drv, inc, agg, store>>

(***************************************************************************)
(* Diff and persistence store                                              *)
(***************************************************************************)

\* variant: the existing file is never loaded
original_rules_ignored(file) == {}

\* the rules of the existing file, the empty set when there is none
original_rules_of(file) == IF file.exists THEN set(file.payload) ELSE {}

\* variant: the lists are compared in iteration order
NoChangesUnsorted(rules_list, original_list) == rules_list = original_list

\* the comparison that decides whether the file is written
NoChanges(rules_list, original_list) == sorted(rules_list) = sorted(original_list)

\* variant: the rules are written in iteration order
sorted_rules_unsorted(rules_list) == rules_list

\* sorted_rules, the list that is compared and written
sorted_rules_of(rules_list) == sorted(rules_list)

\* variant: the difference is taken the wrong way round
rules_added_swapped(rs, original_rules) == original_rules \ rs

rules_added(rs, original_rules) == rs \ original_rules

\* variant: the rules that stay are reported as removed
rules_removed_kept(rs, original_rules) == original_rules \cap rs

rules_removed(rs, original_rules) == original_rules \ rs

\* the loop of main() goes on with the next category
Advance ==
    /\ pc' = IF cat < Len(Table) THEN "start" ELSE "end"
    /\ cat' = IF cat < Len(Table) THEN cat + 1 ELSE cat
    /\ UNCHANGED <<run, visited>>

\* variant: an exception of one category ends the loop of main()
Uncaught ==
    /\ pc' = "end"
    /\ UNCHANGED <<run, cat, visited>>

\* main(): except Exception logs the category as failed and the loop goes on
Caught == Advance

\* os.makedirs(merged_dir, exist_ok=True) raises: the directory is not there
\* and cannot be created
makedirs_raises ==
    /\ faults > 0
    /\ \A c \in CategoryNames : ~snapshot[c].exists

\* variant: every category is saved under the name of the first one
file_path_shared(category) == Table[1].category

\* the file save_to_file is called for: rules/merged/<category>.yaml, the
\* snapshots being keyed by the category whose name they bear
file_path(category) == category

\* RuleProcessor.save_to_file(rules, category + ".yaml"), called by main()
\* inside try: an exception that leaves it is logged by main() as fatal for
\* the category
save_to_file ==
    /\ pc = "save"
    /\ LET c == Table[cat].category
           path == file_path(c)
           file == snapshot[path]
           original_rules == original_rules_of(file)
       IN  /\ last' = [category |-> c, rules |-> rules, prior |-> file]
           /\ \/ /\ makedirs_raises
                 /\ faults' = faults - 1
                 /\ report' = [report EXCEPT ![c] =
                        [status |-> "fatal", added |-> {}, removed |-> {}, total |-> 0]]
                 /\ UNCHANGED <<snapshot, writes>>
                 /\ Caught
              \/ /\ Advance
                 /\ \E l1 \in list(rules), l2 \in list(original_rules) :
                      LET sorted_rules == sorted_rules_of(l1)
                      IN  IF NoChanges(l1, l2)
                          THEN /\ report' = [report EXCEPT ![c] =
                                      [status |-> "nochange", added |-> {}, removed |-> {},
                                       total |-> Len(sorted_rules)]]
                               /\ UNCHANGED <<snapshot, writes, faults>>
                          ELSE \/ /\ snapshot' = [snapshot EXCEPT ![path] = FileOf(sorted_rules)]
                                  /\ report' = [report EXCEPT ![c] =
                                         [status |-> "updated",
                                          added |-> rules_added(rules, original_rules),
                                          removed |-> rules_removed(rules, original_rules),
                                          total |-> Cardinality(rules)]]
                                  /\ writes' = writes + 1
                                  /\ UNCHANGED faults
                               \/ /\ faults > 0
                                  /\ faults' = faults - 1
                                  /\ report' = [report EXCEPT ![c] =
                                         [status |-> "writeerror", added |-> {},
                                          removed |-> {}, total |-> 0]]
                                  /\ \/ UNCHANGED <<snapshot, writes>>
                                     \/ /\ writes' = writes + 1
                                        /\ \E k \in 0..(Len(sorted_rules) - 1) :
                                              snapshot' = [snapshot EXCEPT ![path] =
                                                  FileOf(SubSeq(sorted_rules, 1, k))]
    /\ UNCHANGED <<env, inc, agg, rules, prev>>

(***************************************************************************)
(* Pipeline driver                                                         *)
(***************************************************************************)

\* the pipeline is run again on the same upstream content
NextRun ==
    /\ pc = "end"
    /\ run < MaxRuns
    /\ run' = run + 1
    /\ cat' = 1
    /\ visited' = <<>>
    /\ pc' = "start"
    /\ prev' = report
    /\ report' = [c \in CategoryNames |-> NoReport]
    /\ writes' = 0
    /\ UNCHANGED <<env, inc, agg, rules, snapshot, last, faults>>

Next ==
    \/ process_v2fly_category
    \/ \E n \in Names : WorkerStart(n)
    \/ \E n \in Names : WorkerFinish(n)
    \/ \E n \in Names : AsCompleted(n)
    \/ Return
    \/ process_yaml_sources
    \/ \E i \in Sources : YamlWorkerStart(i)
    \/ \E i \in Sources : YamlWorkerFinish(i)
    \/ \E i \in Sources : YamlAsCompleted(i)
    \/ YamlReturn
    \/ save_to_file
    \/ NextRun

Spec == Init /\ [][Next]_vars

\* The main thread and the worker threads keep running, and a download
\* returns (session.get has timeout=15): a step that can be taken is taken.
FairSpec == Spec /\ WF_vars(Next)

(***************************************************************************)
(* The include graph of the upstream content                               *)
(***************************************************************************)

\* the trimmed lines of a content
LinesOf(content) ==
    IF content = None THEN {}
    ELSE {strip(splitlines(content)[i]) : i \in 1..Len(splitlines(content))}

\* the names a content refers to by include directives
IncludesOf(content) ==
    {strip(SubSeq(l, Len(include_) + 1, Len(l))) :
        l \in {x \in LinesOf(content) : startswith(x, include_)}}

\* the canonical rules of the rule lines of a content
RulesOf(content) ==
    {parse_v2fly_line(l) :
        l \in {x \in LinesOf(content) :
                  x # <<>> /\ ~startswith(x, <<"#">>) /\ ~startswith(x, include_)}}

\* the top-level file of the category being processed
Top == Table[cat].top

TopContent == IF topdown THEN None ELSE files[Top]

\* the names reachable from the top-level file through the files in via
RECURSIVE ReachFrom(_, _)
ReachFrom(S, via) ==
    LET T == S \cup UNION {IncludesOf(files[n]) : n \in S \cap via}
    IN  IF T = S THEN S ELSE ReachFrom(T, via)

\* every file reachable through include directives
Reachable == ReachFrom(IncludesOf(TopContent), Names)

\* the includes whose download gives a content
Fetchable == {n \in Names : Truthy(download_file(n))}

\* the includes reached through successfully fetched files only
ReachableFetched == ReachFrom(IncludesOf(TopContent), Fetchable) \cap Fetchable

\* the resolution of the current line-oriented category has returned
Resolved == pc = "save" /\ Table[cat].kind = "v2fly"

\* the category being processed
Current == Table[cat].category

\* the rule set a structured-list source stands for
Normalized(content) == process_yaml_content(content).rules

\* the union over the sources of the current category that were retrieved
UnionOfFetched ==
    UNION {Normalized(docs[i]) : i \in {j \in CurrentSources : docs[j].kind # "fail"}}

\* the aggregation of the current structured-list category has returned
Aggregated == pc = "save" /\ Table[cat].kind = "yaml"

\* the rules of the top-level file and of the includes that could be fetched
UnionOfResolved ==
    IF Truthy(TopContent)
    THEN RulesOf(TopContent) \cup UNION {RulesOf(files[n]) : n \in ReachableFetched}
    ELSE {}

\* the prior rule set of the latest save_to_file, an absent file being empty
LastPrior == IF last.prior.exists THEN set(last.prior.payload) ELSE {}

\* the report of category c is the one of the latest save_to_file
JustSaved(c) == last.category = c /\ report[c].status # "none"

(***************************************************************************)
(* Properties                                                              *)
(***************************************************************************)

\* C1: when A and B include each other and every download succeeds, the
\* resolution of A downloads neither A nor B more than once and returns the
\* union of the rule lines of A and B.
C1_CycleFetchedOnce ==
    (Resolved /\ files = Cyclic /\ ~topdown /\ down = {})
        => /\ gets[A] <= 1
           /\ gets[B] <= 1
           /\ rules = RulesOf(files[A]) \cup RulesOf(files[B])

\* C2: within one top-level resolution every include name is submitted for
\* download at most once, in every interleaving; in the diamond D is
\* downloaded exactly once when B and C were both fetched.
C2_ScheduledOnce ==
    /\ \A n \in Names : scheduled[n] <= 1
    /\ \A n \in Names : n # Table[1].top => gets[n] <= 1
    /\ (Resolved /\ files = Diamond /\ {B, C} \subseteq Fetchable /\ ~topdown)
           => scheduled[D] = 1 /\ gets[D] = 1

C2_Witness ==
    /\ Resolved
    /\ files = Diamond
    /\ down = {}
    /\ fut[B] = "taken"
    /\ fut[C] = "taken"
    /\ scheduled[D] = 1
    /\ gets[D] = 1

\* every download the resolution can make gives a content
EveryFetchSucceeds ==
    /\ TopContent # None
    /\ \A n \in Reachable : download_file(n) # None

\* C3: when every fetch succeeds the returned RuleSet is the union of the
\* canonical rules of the top-level file and of every file reachable from it
\* through include directives.
C3_UnionOfReachable ==
    (Resolved /\ EveryFetchSucceeds)
        => rules = RulesOf(TopContent) \cup UNION {RulesOf(files[n]) : n \in Reachable}

C3_Witness ==
    /\ Resolved
    /\ EveryFetchSucceeds
    /\ files = Chain
    /\ Reachable = {B, C, D}
    /\ (DOMAIN_SUFFIX \o <<",", "a">>) \in rules
    /\ (DOMAIN_KEYWORD \o <<",", "c">>) \in rules

\* C4: whatever the order in which the fetches of a category complete,
\* process_yaml_sources returns the union of the normalized rule sets of the
\* sources whose fetch succeeded.
C4_OrderIndependent == Aggregated => rules = UnionOfFetched

C4_Witness ==
    /\ Aggregated
    /\ order = <<3, 1, 2>>
    /\ docs[1] = DocXY
    /\ docs[2] = DocYZ
    /\ docs[3] = DocZ
    /\ rules = {RX, RY, RZ}

\* a source of the category at index i of Table fails in its fetch or parse
SomeSourceFails(i) ==
    \E j \in set(Table[i].sources) : docs[j].kind \in {"fail", "error", "null"}

\* the loop of main() is past the category at index i of Table
Past(i) == cat > i \/ pc = "end"

\* C5: when the fetch or the parse of some sources of a category fails,
\* process_yaml_sources returns the union of the rules of the other sources,
\* that category is handed to save_to_file and the next category is processed.
C5_PartialFailure ==
    /\ (Aggregated /\ SomeSourceFails(cat))
           => rules = UNION {Normalized(docs[j]) :
                                j \in {k \in CurrentSources :
                                          docs[k].kind \notin {"fail", "error", "null"}}}
    /\ \A i \in 1..Len(Table) :
           (Table[i].kind = "yaml" /\ SomeSourceFails(i) /\ Past(i))
               => /\ report[Table[i].category].status # "none"
                  /\ (i < Len(Table) /\ pc = "end")
                         => report[Table[i + 1].category].status # "none"

C5_Witness ==
    /\ pc = "end"
    /\ docs[1] = DocFail
    /\ docs[2] = DocYZ
    /\ docs[3] = DocZ
    /\ report["CN"].status = "updated"
    /\ snapshot["CN"] = FileOf(<<RY, RZ>>)
    /\ report["VPS"].status # "none"

\* an include that was submitted could not be fetched
SomeIncludeFailed == \E n \in Names : scheduled[n] > 0 /\ ~Truthy(download_file(n))

\* C6: an include whose fetch fails contributes no rules and aborts nothing:
\* the result holds the rules of the top-level file and of every include
\* fetched successfully, with the includes reachable through those.
C6_FailedIncludeSkipped ==
    (Resolved /\ Truthy(TopContent) /\ SomeIncludeFailed)
        => /\ rules = RulesOf(TopContent)
                         \cup UNION {RulesOf(files[n]) : n \in ReachableFetched}
           /\ RulesOf(TopContent) \subseteq rules

C6_Witness ==
    /\ Resolved
    /\ files = Diamond
    /\ down = {B}
    /\ fut[B] = "taken"
    /\ fut[D] = "taken"
    /\ RulesOf(files[C]) \cup RulesOf(files[D]) \subseteq rules
    /\ (DOMAIN_KEYWORD \o <<",", "b">>) \notin rules

\* C7: when save_to_file is called for a category, every download and every
\* include expansion submitted for it has completed and been collected, and
\* the rules handed over are the complete aggregated set.
C7_WriteAfterReadAll ==
    pc = "save"
        => /\ stack = <<>>
           /\ \A n \in Names : fut[n] \in {"none", "taken"}
           /\ \A i \in Sources : yfut[i] \in {"none", "taken"}
           /\ \A i \in CurrentSources : yfut[i] = "taken"
           /\ rules = IF Table[cat].kind = "v2fly" THEN UnionOfResolved
                      ELSE UnionOfFetched

C7_Witness ==
    /\ Resolved
    /\ files = Diamond
    /\ down = {}
    /\ ~topdown
    /\ \A n \in {B, C, D} : fut[n] = "taken"
    /\ Cardinality(rules) = 5

\* C8, as claimed: with unchanged upstream content no run writes a snapshot
\* and every category is reported as unchanged, in the first run as in the
\* second.
C8_NoWriteInAnyRun ==
    /\ writes = 0
    /\ \A c \in CategoryNames : report[c].status \in {"none", "nochange"}

\* no write failed in the run before
PrevRunPersisted == \A c \in CategoryNames : prev[c].status \in {"nochange", "updated"}

\* C8, amended: a run that follows a run without write failure on unchanged
\* upstream content writes no snapshot and reports every category as
\* unchanged.
C8_RerunNoChanges ==
    (run >= 2 /\ PrevRunPersisted)
        => /\ writes = 0
           /\ \A c \in CategoryNames : report[c].status \in {"none", "nochange"}

C8_Witness ==
    /\ run = 2
    /\ pc = "end"
    /\ \A c \in CategoryNames : prev[c].status = "updated"
    /\ \A c \in CategoryNames : report[c].status = "nochange" /\ report[c].total > 0
    /\ writes = 0

\* C9: when the new RuleSet and the rules of the prior snapshot are equal as
\* sorted sequences, save_to_file writes nothing, leaves the snapshot as it is
\* and reports no changes, whatever the iteration order of the two sets.
C9_NoChangeNoWrite ==
    [][(pc = "save"
          /\ sorted(SetToSeq(rules))
               = sorted(SetToSeq(IF snapshot[Current].exists
                                 THEN set(snapshot[Current].payload) ELSE {})))
         => /\ snapshot' = snapshot
            /\ writes' = writes
            /\ faults' = faults
            /\ report'[Current].status = "nochange"]_vars

C9_Witness ==
    /\ run = 1
    /\ JustSaved("games")
    /\ last.prior = Stale["games"]
    /\ last.rules = set(Stale["games"].payload)
    /\ report["games"].status = "nochange"
    /\ snapshot["games"] = Stale["games"]
    /\ writes = 0

\* C10: when save_to_file persists a changed set it reports new minus prior
\* as added and prior minus new as removed, an absent snapshot counting as
\* empty; prior {X, Z} and new {X, Y} give added {Y} and removed {Z}.
C10_DiffReported ==
    \A c \in CategoryNames :
        (JustSaved(c) /\ report[c].status = "updated")
            => /\ report[c].added = last.rules \ LastPrior
               /\ report[c].removed = LastPrior \ last.rules
               /\ ~last.prior.exists => report[c].added = last.rules
               /\ (last.prior = FileOf(<<RX, RZ>>) /\ last.rules = {RX, RY})
                      => report[c].added = {RY} /\ report[c].removed = {RZ}

C10_Witness ==
    /\ JustSaved("VPS")
    /\ last.prior = FileOf(<<RX, RZ>>)
    /\ last.rules = {RX, RY}
    /\ report["VPS"].status = "updated"
    /\ report["VPS"].added = {RY}
    /\ report["VPS"].removed = {RZ}
    /\ snapshot["VPS"] = FileOf(<<RX, RY>>)

\* l is duplicate-free and in ascending order of code points
Ascending(l) == \A i \in 1..Len(l) : \A j \in 1..Len(l) : i < j => StrLess(l[i], l[j])

\* C11: when the new RuleSet differs from the prior snapshot and the write
\* succeeds, the snapshot afterwards is the new RuleSet as a duplicate-free
\* sequence in ascending lexicographic order; {DOMAIN-SUFFIX,z ; DOMAIN,y ;
\* DOMAIN,x} is written as DOMAIN,x then DOMAIN,y then DOMAIN-SUFFIX,z.
C11_PersistedSorted ==
    \A c \in CategoryNames :
        (JustSaved(c) /\ report[c].status = "updated")
            => /\ snapshot[c].exists
               /\ set(snapshot[c].payload) = last.rules
               /\ Len(snapshot[c].payload) = Cardinality(last.rules)
               /\ Ascending(snapshot[c].payload)
               /\ last.rules = {RX, RY, RZ} => snapshot[c].payload = <<RX, RY, RZ>>

C11_Witness ==
    /\ JustSaved("CN")
    /\ report["CN"].status = "updated"
    /\ last.prior = Stale["CN"]
    /\ last.rules = {RX, RY, RZ}
    /\ snapshot["CN"] = FileOf(<<RX, RY, RZ>>)

\* the RuleSet the sources of the category at index i of the table stand for
ExpectedOf(i) ==
    IF Table[i].kind = "v2fly"
    THEN UnionOfResolved
    ELSE UNION {Normalized(docs[j]) :
                   j \in {k \in set(Table[i].sources) : docs[k].kind # "fail"}}

\* no save_to_file of the current run has failed
NoWriteFailed == \A c \in CategoryNames : report[c].status \in {"nochange", "updated"}

\* C12: after a run in which no write fails there is one snapshot file for
\* every category of the table, and it holds the sorted canonical rules of the
\* category's aggregated RuleSet.
C12_FilePerCategory ==
    (pc = "end" /\ NoWriteFailed)
        => \A i \in 1..Len(Table) :
               snapshot[Table[i].category] = FileOf(sorted(SetToSeq(ExpectedOf(i))))

\* the case that falls outside C12: no prior file and an empty RuleSet
C12_NoFileForEmpty ==
    /\ pc = "end"
    /\ NoWriteFailed
    /\ topdown
    /\ report["games"].status = "nochange"
    /\ ~snapshot["games"].exists
    /\ snapshot["CN"].exists

\* the categories of the table in the order of the two loops of main()
TableOrder == [i \in 1..Len(Table) |-> Table[i].category]

\* C13: an error raised while one category is aggregated or persisted is caught
\* and logged and the driver goes on with the next category: every run
\* completes, having attempted every category of the table exactly once, in
\* table order, with an outcome reported for each.
C13_EveryCategoryAttempted ==
    /\ [](/\ Len(visited) <= Len(Table)
          /\ visited = SubSeq(TableOrder, 1, Len(visited))
          /\ pc = "end" => /\ visited = TableOrder
                           /\ \A c \in CategoryNames : report[c].status # "none")
    /\ (pc # "end") ~> (pc = "end")

C13_Witness ==
    /\ pc = "end"
    /\ report["games"].status = "fatal"
    /\ report["CN"].status = "updated"
    /\ report["VPS"].status = "updated"
    /\ visited = TableOrder

\* C14: for every include graph, cyclic ones included, and with every fetch
\* returning, process_v2fly_category terminates: the calls never nest deeper
\* than there are names, and a resolution that has begun returns, whatever the
\* order in which the workers are scheduled and the downloads complete.
C14_ResolutionTerminates ==
    /\ [](Len(stack) <= Cardinality(Names) + 1)
    /\ (pc = "resolve") ~> (pc = "save" /\ stack = <<>>)

C14_Witness ==
    /\ Resolved
    /\ files = Cyclic
    /\ down = {}
    /\ gets[B] = 1
    /\ \A n \in Names : fut[n] \in {"none", "taken"}

\* the contents the resolution of the current category has parsed
ParsedContents ==
    IF Truthy(TopContent) THEN {TopContent} \cup {files[n] : n \in ReachableFetched} ELSE {}

\* text after the first colon of a trimmed line
AfterColon(l) == SubSeq(l, find(l, ":") + 1, Len(l))

\* the canonical rule of a trimmed rule line of one of the four forms: the
\* three prefixes and the line without prefix
CanonicalOf(l) ==
    IF startswith(l, full \o <<":">>) THEN DOMAIN_ \o <<",">> \o strip(AfterColon(l))
    ELSE IF startswith(l, domain \o <<":">>)
    THEN DOMAIN_SUFFIX \o <<",">> \o strip(AfterColon(l))
    ELSE IF startswith(l, keyword \o <<":">>)
    THEN DOMAIN_KEYWORD \o <<",">> \o strip(AfterColon(l))
    ELSE DOMAIN_SUFFIX \o <<",">> \o l

\* the trimmed line is a rule line of one of the four forms
OfKnownForm(l) ==
    /\ l # <<>>
    /\ ~startswith(l, <<"#">>)
    /\ ~startswith(l, include_)
    /\ \/ find(l, ":") = 0
       \/ \E k \in v2fly_rule_map_keys : startswith(l, k \o <<":">>)

\* C15: the line-oriented normalizer gives one canonical rule for each rule
\* line: full:V gives DOMAIN,V, domain:V gives DOMAIN-SUFFIX,V, keyword:V gives
\* DOMAIN-KEYWORD,V and a line L without prefix gives DOMAIN-SUFFIX,L, blanks
\* around the line and the value trimmed; comments and blank lines give none.
C15_CanonicalRules ==
    Resolved =>
        /\ \A content \in ParsedContents : \A l \in LinesOf(content) :
              /\ OfKnownForm(l) => CanonicalOf(l) \in rules
              /\ (l = <<>> \/ startswith(l, <<"#">>)) => parse_v2fly_line(l) = None
        /\ (files = Spaced /\ ParsedContents # {})
              => rules = {DOMAIN_ \o <<",", "a">>, DOMAIN_SUFFIX \o <<",", "b">>,
                          DOMAIN_KEYWORD \o <<",", "c">>,
                          DOMAIN_SUFFIX \o <<",", "d", ".", "e">>}

C15_Witness ==
    /\ Resolved
    /\ files = Spaced
    /\ rules = {DOMAIN_ \o <<",", "a">>, DOMAIN_SUFFIX \o <<",", "b">>,
                DOMAIN_KEYWORD \o <<",", "c">>, DOMAIN_SUFFIX \o <<",", "d", ".", "e">>}

\* the rules C16 gives a source: the trimmed entries that are strings, leaving
\* out the comments and the empty entries
TrimmedEntries(content) ==
    IF content.kind # "list" THEN {}
    ELSE {strip(content.items[i].text) :
             i \in {j \in 1..Len(content.items) :
                       /\ content.items[j].isstr
                       /\ ~startswith(content.items[j].text, <<"#">>)
                       /\ strip(content.items[j].text) # <<>>}}

\* C16: process_yaml_content returns exactly the trimmed forms of the payload's
\* entries that are not comments: an entry beginning with # gives no rule and
\* an empty entry gives no rule.
C16_NoRuleForCommentOrEmpty ==
    Aggregated =>
        /\ <<>> \notin rules
        /\ \A i \in CurrentSources :
              docs[i].kind = "list" => Normalized(docs[i]) = TrimmedEntries(docs[i])

\* the content is malformed for the structured-list normalizer: it does not
\* parse, has no payload, or its payload is not a sequence
Malformed(content) == content.kind \in {"error", "nodict", "nokey", "null", "str"}

\* C17: content that is malformed for the structured-list normalizer (a parse
\* failure, a missing payload key, a payload of the wrong shape) gives an empty
\* RuleSet for its source and never an error that ends the run.
C17_MalformedGivesNoRule ==
    /\ Aggregated =>
          rules = UNION {Normalized(docs[i]) :
                            i \in {j \in CurrentSources :
                                      docs[j].kind # "fail" /\ ~Malformed(docs[j])}}
    /\ (pc = "end" /\ \E i \in Sources : Malformed(docs[i]))
          => \A c \in CategoryNames : report[c].status # "none"

\* the response to attempt i of a download answered by served
At(served, i) == served[IF i <= Len(served) THEN i ELSE Len(served)]

C19_FailedWriteKeepsSnapshot ==
    \A i \in 1..Len(Table) :
        LET c == Table[i].category
        IN  (JustSaved(c) /\ report[c].status = "writeerror")
                => /\ snapshot[c] = last.prior
                   /\ Past(i)

\* every source of the category at index i of the table has failed to fetch
AllSourcesFailed(i) ==
    IF Table[i].kind = "v2fly"
    THEN TopContent = None
    ELSE \A j \in set(Table[i].sources) : docs[j].kind = "fail"

\* C20: if every source of a category fails to fetch, the run does not fail:
\* the aggregated RuleSet is empty, and save_to_file replaces a non-empty prior
\* snapshot by the empty sequence and reports every prior rule as removed.
C20_AllFailedEmptiesSnapshot ==
    \A i \in 1..Len(Table) :
        LET c == Table[i].category
        IN  (JustSaved(c) /\ AllSourcesFailed(i))
                => /\ last.rules = {}
                   /\ report[c].status # "fatal"
                   /\ (last.prior.exists /\ last.prior.payload # <<>>
                          /\ report[c].status # "writeerror")
                         => /\ snapshot[c] = FileOf(<<>>)
                            /\ report[c] = [status |-> "updated", added |-> {},
                                            removed |-> set(last.prior.payload),
                                            total |-> 0]

C20_Witness ==
    /\ JustSaved("VPS")
    /\ docs[4] = DocFail
    /\ last.prior = Stale["VPS"]
    /\ snapshot["VPS"] = FileOf(<<>>)
    /\ report["VPS"].removed = {RX, RZ}
    /\ pc = "end"

\* C21: a snapshot is changed only by save_to_file, and only the one of the
\* category being saved: no step of fetching, normalizing or aggregating
\* writes a snapshot, and the save of a category, succeeding or failing,
\* leaves the snapshot of every other category as it is.
C21_OnlySaveWrites ==
    [][\A c \in CategoryNames :
          snapshot'[c] # snapshot[c] => (pc = "save" /\ c = Table[cat].category)]_vars

C21_Witness ==
    /\ JustSaved("CN")
    /\ report["CN"].status = "writeerror"
    /\ snapshot["CN"] # last.prior
    /\ report["games"].status = "updated"
    /\ snapshot["games"] # Stale["games"]
    /\ snapshot["VPS"] = Stale["VPS"]
    /\ pc = "collect"

\* the step is one of a worker thread: a download is taken up or returns
WorkerStep ==
    \E n \in Names :
        \/ fut[n] = "queued" /\ fut'[n] = "running"
        \/ fut[n] = "running" /\ fut'[n] = "done"

\* C22: during one top-level resolution every read and write of
\* processed_includes and every update of the accumulated rules is made by the
\* thread that called process_v2fly_category; the tasks of the worker pool
\* only download, so the test and the add of an include name are never made
\* by two threads at once.
C22_SingleThreadIncludeSet ==
    /\ [](touched \subseteq {MainThread})
    /\ [][WorkerStep => /\ processed_includes' = processed_includes
                        /\ stack' = stack
                        /\ rules' = rules
                        /\ touched' = touched]_vars

C22_Witness ==
    /\ files = Diamond
    /\ pc = "resolve"
    /\ Len(stack) = 2
    /\ fut[C] = "running"
    /\ fut[D] = "running"
    /\ D \in processed_includes
    /\ touched = {MainThread}

====
